---- MODULE Spec2Model ----
(***************************************************************************)
(* Model of Source/Dynamite/Models.h: the ModelParameters registry, the    *)
(* TModel wrapper, operator>> and the Batch::Map combinators.              *)
(*                                                                         *)
(* Registries live in a heap (a sequence; the address of a registry is its *)
(* index, NullPtr is the empty shared_ptr).  A TModel is the pair of its   *)
(* callable and its ModelParametersPtr.                                    *)
(***************************************************************************)
EXTENDS Integers, Sequences, FiniteSets, TLC

VARIABLES
    heap,             \* the ModelParameters objects alive, by address
    out,              \* what the last operation was given and what it returned
    debugName,        \* Parameter -> the name DebugUpdateName last implanted
    models,           \* the UnaryBroadcastingModel values built so far
    CurrentMapIndex,  \* the static size_t behind Batch::CurrentMapIndex()
    stack,            \* the activations of the binary Batch::Map lambda
    ndebug,           \* the build defines NDEBUG: assert() expands to nothing
    lhsFirst          \* the build evaluates res[i] before the call f(x[i], y[i])

mapVars == <<CurrentMapIndex, stack, ndebug, lhsFirst>>

vars == <<heap, out, debugName, models, CurrentMapIndex, stack, ndebug, lhsFirst>>

(***************************************************************************)
(* Bounds of the model.                                                    *)
(***************************************************************************)
MaxRegs == 2

MaxLogRegs == 3

MaxModels == 3

MaxLen == 2

MaxNest == 1

NumVals == 3

(***************************************************************************)
(* Parameters (CNTK::Parameter handles).  A parameter is an identity; its  *)
(* Name() is fixed.  1 and 3 carry the same name, 4 is unnamed.            *)
(***************************************************************************)
Params == {1, 2, 3, 4}

Name(p) == CASE p = 1 -> "W"
             [] p = 2 -> "b"
             [] p = 3 -> "W"
             [] OTHER -> ""

NullPtr == 0

\* Keys of a std::map<wstring, ...> are visited in wstring order
\* ('W' < '[' < 'b' < 'f' < 'g').
KeyOrder == <<"W", "[0]", "[1]", "[2]", "b", "f", "g">>

SortedKeys(S) == SelectSeq(KeyOrder, LAMBDA k : k \in S)

EmptyMap == [k \in {} |-> NullPtr]

\* std::map::insert: an existing key keeps its value.
MapInsert(m, k, v) ==
    IF k \in DOMAIN m THEN m
    ELSE [x \in DOMAIN m \cup {k} |-> IF x = k THEN v ELSE m[x]]

(***************************************************************************)
(* Results of an operation: a value, a LogicError (an exception), or, for  *)
(* undefined behaviour, whatever the build produces.                       *)
(***************************************************************************)
Ok(v) == [kind |-> "ok", val |-> v]

LogicError == [kind |-> "LogicError", val |-> <<>>]

Crash == [kind |-> "crash", val |-> <<>>]

\* Dereferencing a null ModelParametersPtr is undefined: the process may
\* fault, or go on with anything of the result's type, or raise.
NullDeref(values) == {Crash, LogicError} \cup {Ok(v) : v \in values}

(***************************************************************************)
(* ModelParameters::ModelParameters                                        *)
(***************************************************************************)
RECURSIVE InsertParameters(_, _)
InsertParameters(m, parameters) ==
    IF parameters = <<>> THEN [ok |-> TRUE, map |-> m]
    ELSE LET p == Head(parameters)
         IN  IF Name(p) = "" THEN [ok |-> FALSE, map |-> m]
             ELSE InsertParameters(MapInsert(m, Name(p), p), Tail(parameters))

Range(s) == {s[i] : i \in DOMAIN s}

\* Mutant of ModelParameters: every nested entry is inserted, null or not.
ModelParametersKeepNull(parameters, parentParameters) ==
    LET ins == InsertParameters(EmptyMap, parameters)
    IN  IF ins.ok
        THEN Ok([m_parameters       |-> ins.map,
                 m_nestedParameters |-> parentParameters,
                 given              |-> Range(parameters)])
        ELSE LogicError

\* The registry built by the constructor, or the LogicError it throws.
\* given is a history field: the parameters the constructor was passed.
ModelParameters(parameters, parentParameters) ==
    LET kept == {k \in DOMAIN parentParameters : parentParameters[k] # NullPtr}
        ins  == InsertParameters(EmptyMap, parameters)
    IN  IF ins.ok
        THEN Ok([m_parameters       |-> ins.map,
                 m_nestedParameters |-> [k \in kept |-> parentParameters[k]],
                 given              |-> Range(parameters)])
        ELSE LogicError

\* make_shared<ModelParameters>(parameters, nested): the new heap and the
\* pointer, or the heap as it was and the exception.
MakeShared(h, parameters, nested) ==
    LET r == ModelParameters(parameters, nested)
    IN  IF r.kind = "ok"
        THEN [heap |-> Append(h, r.val), res |-> Ok(Len(h) + 1)]
        ELSE [heap |-> h, res |-> r]

(***************************************************************************)
(* NameNumberedParameters: names "[0]", "[1]", ... in order.               *)
(***************************************************************************)
RECURSIVE NameNumberedFrom(_, _)
NameNumberedFrom(res, nested) ==
    IF nested = <<>> THEN res
    ELSE LET key == "[" \o ToString(Cardinality(DOMAIN res)) \o "]"
         IN  NameNumberedFrom(
                 [x \in DOMAIN res \cup {key} |->
                     IF x = key THEN Head(nested) ELSE res[x]],
                 Tail(nested))

NameNumberedParameters(nested) == NameNumberedFrom(EmptyMap, nested)

(***************************************************************************)
(* ModelParameters::operator[], ModelParameters::Nested                    *)
(***************************************************************************)
RegIndex(reg, name) ==
    IF name \notin DOMAIN reg.m_parameters THEN LogicError
    ELSE Ok(reg.m_parameters[name])

RegNested(reg, name) ==
    IF name \notin DOMAIN reg.m_nestedParameters THEN LogicError
    ELSE Ok(reg.m_nestedParameters[name])

(***************************************************************************)
(* ModelParameters::CollectParameters                                      *)
(***************************************************************************)
RECURSIVE CollectOwn(_, _, _)
\* Mutant of CollectOwn: the result of visited.insert is ignored.
CollectOwnUnchecked(params, keys, acc) ==
    IF keys = <<>> THEN acc
    ELSE LET p == params[Head(keys)]
         IN  CollectOwn(params, Tail(keys),
                 [res |-> Append(acc.res, p), visited |-> acc.visited \cup {p}])

CollectOwn(params, keys, acc) ==
    IF keys = <<>> THEN acc
    ELSE LET p == params[Head(keys)]
         IN  CollectOwn(params, Tail(keys),
                 IF p \notin acc.visited
                 THEN [res |-> Append(acc.res, p), visited |-> acc.visited \cup {p}]
                 ELSE acc)

RECURSIVE CollectParameters(_, _, _)
RECURSIVE CollectNested(_, _, _, _)
CollectNested(h, nested, keys, acc) ==
    IF keys = <<>> THEN acc
    ELSE CollectNested(h, nested, Tail(keys),
             CollectParameters(h, nested[Head(keys)], acc))

CollectParameters(h, addr, acc) ==
    LET reg == h[addr]
    IN  CollectNested(h, reg.m_nestedParameters,
            SortedKeys(DOMAIN reg.m_nestedParameters),
            CollectOwn(reg.m_parameters, SortedKeys(DOMAIN reg.m_parameters), acc))

(***************************************************************************)
(* ModelParameters::LogParameters: the lines written to stderr (name and   *)
(* parameter) and the debug names implanted.                               *)
(***************************************************************************)
RECURSIVE LogOwn(_, _, _, _)
LogOwn(params, keys, prefix, acc) ==
    IF keys = <<>> THEN acc
    ELSE LET p    == params[Head(keys)]
             name == prefix \o Head(keys)
         IN  LogOwn(params, Tail(keys), prefix,
                 [log   |-> Append(acc.log, [name |-> name, p |-> p]),
                  names |-> [acc.names EXCEPT ![p] = name]])

RECURSIVE LogParameters(_, _, _, _)
RECURSIVE LogNested(_, _, _, _)
LogNested(h, nested, keys, acc) ==
    IF keys = <<>> THEN acc
    ELSE LogNested(h, nested, Tail(keys),
             LogParameters(h, nested[Head(keys)], Head(keys) \o ".", acc))

LogParameters(h, addr, prefix, acc) ==
    LET reg == h[addr]
    IN  LogOwn(reg.m_parameters, SortedKeys(DOMAIN reg.m_parameters), prefix,
            LogNested(h, reg.m_nestedParameters,
                SortedKeys(DOMAIN reg.m_nestedParameters), acc))

(***************************************************************************)
(* TModel: operator[], Nested, Parameters.  get() is not checked for null. *)
(***************************************************************************)
TModelIndex(h, m, name) ==
    IF m = NullPtr THEN NullDeref(Params) ELSE {RegIndex(h[m], name)}

TModelNested(h, m, name) ==
    IF m = NullPtr THEN NullDeref(1..Len(h)) ELSE {RegNested(h[m], name)}

TModelParameters(h, m) ==
    IF m = NullPtr THEN NullDeref({<<>>})
    ELSE {Ok(CollectParameters(h, m, [res |-> <<>>, visited |-> {}]).res)}

(***************************************************************************)
(* Inputs.                                                                 *)
(***************************************************************************)
\* vector<Parameter> arguments: no parameter, one (named or not), two with
\* different names, two with the same name.
ParamLists == {<<>>, <<1>>, <<3>>, <<4>>, <<1, 2>>, <<1, 3>>}

NestedNames == {"f", "g"}

ParamNames == {"W", "b"}

Ptrs(h) == 0..Len(h)

NestedMaps(h) ==
    UNION {[D -> Ptrs(h)] : D \in SUBSET NestedNames}

PtrLists(h) ==
    {<<a>> : a \in Ptrs(h)} \cup {<<a, b>> : a \in Ptrs(h), b \in Ptrs(h)}

Result(op, m, name, parameters, nested, res) ==
    [op |-> op, m |-> m, name |-> name, parameters |-> parameters,
     nested |-> nested, res |-> res]

(***************************************************************************)
(* Actions: the constructors                                               *)
(***************************************************************************)
Construct(op, parameters, nested) ==
    LET r == MakeShared(heap, parameters, nested)
    IN  /\ heap' = r.heap
        /\ out' = Result(op, NullPtr, "", parameters, nested, r.res)
        /\ UNCHANGED <<debugName, models, mapVars>>

\* TModel(const Base& f)
NewBare ==
    /\ out' = Result("TModel(f)", NullPtr, "", <<>>, EmptyMap, Ok(NullPtr))
    /\ UNCHANGED <<heap, debugName, models, mapVars>>

\* TModel(parameters, f)
NewFlat(parameters) == Construct("TModel(parameters,f)", parameters, EmptyMap)

\* TModel(parameters, nested, f)
NewNamed(parameters, nested) ==
    Construct("TModel(parameters,nested,f)", parameters, nested)

\* TModel(vector<ModelParametersPtr> nested, f)
NewIndexed(nested) ==
    Construct("TModel(nested,f)", <<>>, NameNumberedParameters(nested))

\* operator>>(before, after): the nested map { {L"f", before}, {L"g", after} }
ComposeNested(before, after) ==
    [k \in {"f", "g"} |-> IF k = "f" THEN before ELSE after]

\* operator>>(before, after): the registry of the model it returns
Compose(before, after) ==
    Construct("operator>>", <<>>, ComposeNested(before, after))

\* Batch::Map(f): the model it returns
BatchMap(f) == Construct("Batch::Map", <<>>, [k \in {"f"} |-> f])

(***************************************************************************)
(* Actions: the queries                                                    *)
(***************************************************************************)
Index(m, name) ==
    /\ \E r \in TModelIndex(heap, m, name) :
          out' = Result("operator[]", m, name, <<>>, EmptyMap, r)
    /\ UNCHANGED <<heap, debugName, models, mapVars>>

NestedOf(m, name) ==
    /\ \E r \in TModelNested(heap, m, name) :
          out' = Result("Nested", m, name, <<>>, EmptyMap, r)
    /\ UNCHANGED <<heap, debugName, models, mapVars>>

Parameters(m) ==
    /\ \E r \in TModelParameters(heap, m) :
          out' = Result("Parameters", m, "", <<>>, EmptyMap, r)
    /\ UNCHANGED <<heap, debugName, models, mapVars>>

\* TModel::LogParameters of a model that has a registry
LogParametersOf(m) ==
    LET r == LogParameters(heap, m, "", [log |-> <<>>, names |-> debugName])
    IN  /\ out' = Result("LogParameters", m, "", <<>>, EmptyMap, Ok(r.log))
        /\ debugName' = r.names
        /\ UNCHANGED <<heap, models, mapVars>>

\* size_t is modelled SizeBits wide.
SizeBits == 3

SIZE_MAX == 2 ^ SizeBits - 1

InitRest ==
    /\ debugName = [p \in Params |-> ""]
    /\ models = <<>>
    /\ CurrentMapIndex = SIZE_MAX
    /\ stack = <<>>
    /\ ndebug = FALSE
    /\ lhsFirst = FALSE

NoResult == Result("none", NullPtr, "", <<>>, EmptyMap, Ok(NullPtr))

Init ==
    /\ heap = <<>>
    /\ out = NoResult
    /\ InitRest

Next ==
    \/ NewBare
    \/ Len(heap) < MaxRegs /\ \E ps \in ParamLists : NewFlat(ps)
    \/ Len(heap) < MaxRegs /\ \E ps \in ParamLists, n \in NestedMaps(heap) : NewNamed(ps, n)
    \/ Len(heap) < MaxRegs /\ \E v \in PtrLists(heap) : NewIndexed(v)
    \/ Len(heap) < MaxRegs /\ \E a \in Ptrs(heap), b \in Ptrs(heap) : Compose(a, b)
    \/ Len(heap) < MaxRegs /\ \E a \in Ptrs(heap) : BatchMap(a)
    \/ \E m \in Ptrs(heap), n \in ParamNames : Index(m, n)
    \/ \E m \in Ptrs(heap), n \in NestedNames \cup {"[0]"} : NestedOf(m, n)
    \/ \E m \in Ptrs(heap) : Parameters(m)

Spec == Init /\ [][Next]_vars

(***************************************************************************)
(* Properties of the registry (checked under Spec)                         *)
(***************************************************************************)
Constructors ==
    {"TModel(parameters,f)", "TModel(parameters,nested,f)", "TModel(nested,f)",
     "operator>>", "Batch::Map"}

\* The registries a registry reaches through nested entries, itself included.
RECURSIVE Reachable(_, _)
Reachable(h, addr) ==
    {addr} \cup UNION {Reachable(h, h[addr].m_nestedParameters[k]) :
                          k \in DOMAIN h[addr].m_nestedParameters}

NameUnique(ps) == \A p \in ps, q \in ps : p # q => Name(p) # Name(q)

NoRepeats(s) == \A i \in DOMAIN s, j \in DOMAIN s : i # j => s[i] # s[j]

IsEmptyRegistry(reg) ==
    DOMAIN reg.m_parameters = {} /\ DOMAIN reg.m_nestedParameters = {}

\* C1: Parameters() of a model whose registry tree was built from name-unique
\* parameter lists returns every parameter passed at any level of the tree,
\* nothing else, and each exactly once, also under sharing.
C1_CollectExactlyOnce ==
    (/\ out.op = "Parameters"
     /\ out.m # NullPtr
     /\ \A a \in Reachable(heap, out.m) : NameUnique(heap[a].given))
    => /\ out.res.kind = "ok"
       /\ Range(out.res.val) = UNION {heap[a].given : a \in Reachable(heap, out.m)}
       /\ NoRepeats(out.res.val)

\* C1 witness: a collection over a name-unique tree in which one sub-registry
\* is nested under two names and one parameter is held at two levels.
C1_Witness ==
    /\ out.op = "Parameters"
    /\ out.m # NullPtr
    /\ out.res.kind = "ok"
    /\ \A a \in Reachable(heap, out.m) : NameUnique(heap[a].given)
    /\ LET nested == heap[out.m].m_nestedParameters
       IN  \E k1 \in DOMAIN nested, k2 \in DOMAIN nested :
              /\ k1 # k2
              /\ nested[k1] = nested[k2]
              /\ heap[out.m].given \cap heap[nested[k1]].given # {}
              /\ Len(out.res.val) >= 2

\* C2: a parameter list with two parameters of the same name makes the
\* constructor fail with a LogicError, and no registry has dropped one of
\* two same-named parameters it was given.
C2_DuplicateNameIsFatal ==
    /\ (out.op \in Constructors /\ ~NameUnique(Range(out.parameters)))
          => out.res = LogicError
    /\ \A a \in 1..Len(heap) :
          heap[a].given = {heap[a].m_parameters[k] : k \in DOMAIN heap[a].m_parameters}

\* C3 as stated: no nested entry is null or refers to a registry with no
\* parameter and no nested child.
C3_NoEmptyNestedEntry ==
    \A a \in 1..Len(heap) : \A k \in DOMAIN heap[a].m_nestedParameters :
        LET t == heap[a].m_nestedParameters[k]
        IN  t # NullPtr /\ ~IsEmptyRegistry(heap[t])

\* C3 as amended: no nested entry is null, and the constructor keeps exactly
\* the entries it was given that are not null, whatever they refer to.
C3_NullEntriesRemoved ==
    /\ \A a \in 1..Len(heap) : \A k \in DOMAIN heap[a].m_nestedParameters :
          heap[a].m_nestedParameters[k] \in 1..(a - 1)
    /\ (out.op \in Constructors /\ out.res.kind = "ok")
          => DOMAIN heap[out.res.val].m_nestedParameters
                = {k \in DOMAIN out.nested : out.nested[k] # NullPtr}

\* C3 witness: a constructor was given a null entry and an entry for a
\* registry without content; the first is gone and the second is kept.
C3_Witness ==
    /\ out.op \in Constructors
    /\ out.res.kind = "ok"
    /\ \E k \in DOMAIN out.nested : out.nested[k] = NullPtr
    /\ \E k \in DOMAIN heap[out.res.val].m_nestedParameters :
          IsEmptyRegistry(heap[heap[out.res.val].m_nestedParameters[k]])

\* C4: operator[] of a name that is no parameter of the model's registry and
\* Nested() of a name that is no nested entry fail with a LogicError, also on
\* a model without a registry; operator[] of a present name returns the
\* parameter passed under that name.
C4_LookupContract ==
    /\ out.op = "operator[]" =>
          IF out.m # NullPtr /\ \E p \in heap[out.m].given : Name(p) = out.name
          THEN /\ out.res.kind = "ok"
               /\ out.res.val \in {p \in heap[out.m].given : Name(p) = out.name}
          ELSE out.res = LogicError
    /\ out.op = "Nested" =>
          IF out.m # NullPtr /\ out.name \in DOMAIN heap[out.m].m_nestedParameters
          THEN out.res = Ok(heap[out.m].m_nestedParameters[out.name])
          ELSE out.res = LogicError

(***************************************************************************)
(* SpecLog: building registry trees and logging them                       *)
(***************************************************************************)
LogParamLists == {<<>>, <<1>>, <<1, 2>>}

NextLog ==
    \/ Len(heap) < MaxLogRegs /\ \E ps \in LogParamLists : NewFlat(ps)
    \/ Len(heap) < MaxLogRegs
          /\ \E ps \in LogParamLists, n \in NestedMaps(heap) : NewNamed(ps, n)
    \/ \E m \in 1..Len(heap) : LogParametersOf(m)

SpecLog == Init /\ [][NextLog]_vars

\* The fully qualified names of the parameters of a registry tree: the names of
\* the enclosing nested entries from the root down, joined by '.', then the
\* parameter's name.
RECURSIVE QualifiedNames(_, _, _)
QualifiedNames(h, addr, path) ==
    {[name |-> path \o k, p |-> h[addr].m_parameters[k]] :
        k \in DOMAIN h[addr].m_parameters}
    \cup UNION {QualifiedNames(h, h[addr].m_nestedParameters[k], path \o k \o ".") :
                   k \in DOMAIN h[addr].m_nestedParameters}

\* C5: LogParameters labels every parameter of the tree with its fully
\* qualified dotted path from the root, implants a label of the parameter as
\* its debug name, and writes the nested registries' parameters before the
\* parameters of the current level.
C5_LogFullyQualified ==
    out.op = "LogParameters" =>
        LET log == out.res.val
            own == Cardinality(DOMAIN heap[out.m].m_parameters)
        IN  /\ Range(log) = QualifiedNames(heap, out.m, "")
            /\ \A e \in Range(log) :
                  [name |-> debugName[e.p], p |-> e.p] \in QualifiedNames(heap, out.m, "")
            /\ \A i \in DOMAIN log :
                  (i > Len(log) - own) <=> (log[i].name \in DOMAIN heap[out.m].m_parameters)

(***************************************************************************)
(* SpecCompose: unary models with their callables, operator>> and calls    *)
(***************************************************************************)
\* The values a Variable takes in the model.
Vals == 0..(NumVals - 1)

\* The callables user code wraps: two functions that do not commute.
Lambdas == {"inc", "dbl"}

Lambda(id, x) == IF id = "inc" THEN (x + 1) % NumVals ELSE (2 * x) % NumVals

\* Calling a model: a user lambda, or the closure operator>> builds, which
\* holds copies of before and after and returns after(before(x)).
RECURSIVE Invoke(_, _)
\* Mutant of ComposedBody: the operands are applied in the wrong order.
ComposedBodySwapped(before, after, x) == Invoke(before, Invoke(after, x))

ComposedBody(before, after, x) == Invoke(after, Invoke(before, x))

Invoke(model, x) ==
    IF model.f.kind = "lambda" THEN Lambda(model.f.id, x)
    ELSE ComposedBody(model.f.before, model.f.after, x)

ComposeParamLists == {<<>>, <<1>>, <<2>>, <<1, 2>>}

\* UnaryModel(f)
UnaryBare(id) ==
    /\ models' = Append(models, [f |-> [kind |-> "lambda", id |-> id], ptr |-> NullPtr])
    /\ out' = Result("TModel(f)", NullPtr, "", <<>>, EmptyMap, Ok(NullPtr))
    /\ UNCHANGED <<heap, debugName, mapVars>>

\* UnaryModel(parameters, f)
UnaryFlat(parameters, id) ==
    LET r == MakeShared(heap, parameters, EmptyMap)
    IN  /\ r.res.kind = "ok"
        /\ heap' = r.heap
        /\ models' = Append(models, [f |-> [kind |-> "lambda", id |-> id], ptr |-> r.res.val])
        /\ out' = Result("TModel(parameters,f)", NullPtr, "", parameters, EmptyMap, r.res)
        /\ UNCHANGED <<debugName, mapVars>>

\* before >> after
ComposeModels(before, after) ==
    LET r == MakeShared(heap, <<>>, ComposeNested(before.ptr, after.ptr))
    IN  /\ heap' = r.heap
        /\ models' = Append(models,
               [f   |-> [kind |-> "compose", before |-> before, after |-> after],
                ptr |-> r.res.val])
        /\ out' = Result("operator>>", NullPtr, "", <<>>,
                         ComposeNested(before.ptr, after.ptr), r.res)
        /\ UNCHANGED <<debugName, mapVars>>

\* model(x)
CallModel(i, x) ==
    /\ out' = Result("operator()", i, "", <<x>>, EmptyMap, Ok(Invoke(models[i], x)))
    /\ UNCHANGED <<heap, debugName, models, mapVars>>

\* model.Parameters()
ParametersOfModel(i) ==
    /\ \E r \in TModelParameters(heap, models[i].ptr) :
          out' = Result("Parameters", i, "", <<>>, EmptyMap, r)
    /\ UNCHANGED <<heap, debugName, models, mapVars>>

NextCompose ==
    \/ Len(models) < MaxModels /\ \E id \in Lambdas : UnaryBare(id)
    \/ Len(models) < MaxModels
          /\ \E ps \in ComposeParamLists, id \in Lambdas : UnaryFlat(ps, id)
    \/ Len(models) < MaxModels
          /\ \E i \in DOMAIN models, j \in DOMAIN models : ComposeModels(models[i], models[j])
    \/ \E i \in DOMAIN models, x \in Vals : CallModel(i, x)
    \/ \E i \in DOMAIN models : ParametersOfModel(i)

SpecCompose == Init /\ [][NextCompose]_vars

\* C8: for every composed model c = a >> b: c(x) = b(a(x)) for every x, the
\* registry of c nests a's registry under "f" and b's under "g", and the
\* parameters collected from c are those collected from a and from b.
C8_CompositionLaw ==
    \A i \in DOMAIN models :
        models[i].f.kind = "compose" =>
            LET c == models[i]
                a == c.f.before
                b == c.f.after
            IN  /\ \A x \in Vals : Invoke(c, x) = Invoke(b, Invoke(a, x))
                /\ DOMAIN heap[c.ptr].m_nestedParameters = {"f", "g"}
                /\ heap[c.ptr].m_nestedParameters["f"] = a.ptr
                /\ heap[c.ptr].m_nestedParameters["g"] = b.ptr
                /\ \A rc \in TModelParameters(heap, c.ptr),
                      ra \in TModelParameters(heap, a.ptr),
                      rb \in TModelParameters(heap, b.ptr) :
                      /\ rc.kind = "ok" /\ ra.kind = "ok" /\ rb.kind = "ok"
                      /\ Range(rc.val) = Range(ra.val) \cup Range(rb.val)
\* The parameters held in the registry tree of a model; none for a model
\* without a registry.
TreeParameters(h, ptr) ==
    IF ptr = NullPtr THEN {}
    ELSE UNION {{h[a].m_parameters[k] : k \in DOMAIN h[a].m_parameters} :
                   a \in Reachable(h, ptr)}

\* C8 as amended: c(x) = b(a(x)); c has a registry of its own, which nests
\* under "f" and "g" the registries of the operands that have one and has no
\* entry for an operand without a registry; Parameters() of c returns the
\* parameters held in the operands' registry trees.
C8_CompositionOfRegistries ==
    \A i \in DOMAIN models :
        models[i].f.kind = "compose" =>
            LET c == models[i]
                a == c.f.before
                b == c.f.after
                given == ComposeNested(a.ptr, b.ptr)
            IN  /\ \A x \in Vals : Invoke(c, x) = Invoke(b, Invoke(a, x))
                /\ c.ptr # NullPtr
                /\ DOMAIN heap[c.ptr].m_parameters = {}
                /\ DOMAIN heap[c.ptr].m_nestedParameters
                      = {k \in {"f", "g"} : given[k] # NullPtr}
                /\ \A k \in DOMAIN heap[c.ptr].m_nestedParameters :
                      heap[c.ptr].m_nestedParameters[k] = given[k]
                /\ \A rc \in TModelParameters(heap, c.ptr) :
                      /\ rc.kind = "ok"
                      /\ NoRepeats(rc.val)
                      /\ Range(rc.val)
                            = TreeParameters(heap, a.ptr) \cup TreeParameters(heap, b.ptr)

\* C8 witness: Parameters() was called on the composition of a bare callable
\* with a model that holds parameters.
C8_Witness ==
    /\ out.op = "Parameters"
    /\ out.res.kind = "ok"
    /\ out.m \in DOMAIN models
    /\ models[out.m].f.kind = "compose"
    /\ models[out.m].f.before.ptr = NullPtr
    /\ models[out.m].f.after.ptr # NullPtr
    /\ out.res.val # <<>>

(***************************************************************************)
(* SpecUnaryMap: the lambda of Batch::Map(UnaryModel)                      *)
(***************************************************************************)
Seqs == UNION {[1..n -> Vals] : n \in 0..MaxLen}

BareModels == {[f |-> [kind |-> "lambda", id |-> id], ptr |-> NullPtr] : id \in Lambdas}

\* for (const auto& x : batch) res.push_back(f(x));  calls lists the indices
\* f was invoked on, in order.
RECURSIVE UnaryMapLoop(_, _, _, _)
UnaryMapLoop(f, batch, k, acc) ==
    IF k > Len(batch) THEN acc
    ELSE UnaryMapLoop(f, batch, k + 1,
             [res   |-> Append(acc.res, Invoke(f, batch[k])),
              calls |-> Append(acc.calls, k - 1)])

\* Mutant of UnaryMapBody: res is not cleared first.
UnaryMapBodyNoClear(f, res, batch, aliased) ==
    UnaryMapLoop(f, batch, 1, [res |-> res, calls |-> <<>>])

\* The lambda's body.  aliased: the caller passed one vector as res and as
\* batch, so that res.clear() empties batch before the loop reads it.
UnaryMapBody(f, res, batch, aliased) ==
    LET cleared == <<>>
        seen    == IF aliased THEN cleared ELSE batch
    IN  UnaryMapLoop(f, seen, 1, [res |-> cleared, calls |-> <<>>])

UnaryMapResult(f, res, batch, aliased) ==
    LET r == UnaryMapBody(f, res, batch, aliased)
    IN  [op |-> "Batch::Map(UnaryModel)", f |-> f, batch |-> batch, res0 |-> res,
         aliased |-> aliased, res |-> r.res, calls |-> r.calls]

\* Batch::Map(f)(res, batch) with two vectors
UnaryMapCall(f, res, batch) ==
    /\ out' = UnaryMapResult(f, res, batch, FALSE)
    /\ UNCHANGED <<heap, debugName, models, mapVars>>

\* Batch::Map(f)(v, v)
UnaryMapCallInPlace(f, v) ==
    /\ out' = UnaryMapResult(f, v, v, TRUE)
    /\ UNCHANGED <<heap, debugName, models, mapVars>>

NextUnaryMap ==
    \/ \E f \in BareModels, res \in Seqs, batch \in Seqs : UnaryMapCall(f, res, batch)
    \/ \E f \in BareModels, v \in Seqs : UnaryMapCallInPlace(f, v)

SpecUnaryMap == Init /\ [][NextUnaryMap]_vars

Indices(n) == [k \in 1..n |-> k - 1]

\* C7 as stated: whatever res held, it ends with one element per input
\* element, res[i] = f(batch[i]), f invoked once per element in index order.
C7_UnaryMapElementwise ==
    out.op = "Batch::Map(UnaryModel)" =>
        /\ Len(out.res) = Len(out.batch)
        /\ \A k \in DOMAIN out.batch : out.res[k] = Invoke(out.f, out.batch[k])
        /\ out.calls = Indices(Len(out.batch))

\* C7 as amended: that holds when res is another vector than the input; when
\* res is the input vector itself, res ends empty and f is never invoked.
C7_UnaryMapUnlessInPlace ==
    out.op = "Batch::Map(UnaryModel)" =>
        IF out.aliased
        THEN out.res = <<>> /\ out.calls = <<>>
        ELSE /\ Len(out.res) = Len(out.batch)
             /\ \A k \in DOMAIN out.batch : out.res[k] = Invoke(out.f, out.batch[k])
             /\ out.calls = Indices(Len(out.batch))

\* C7 witness: a call with two vectors, res holding more than the input's
\* length before and exactly the mapped elements after.
C7_Witness ==
    /\ out.op = "Batch::Map(UnaryModel)"
    /\ ~out.aliased
    /\ Len(out.batch) = 1
    /\ Len(out.res0) = 2
    /\ out.res0[1] # Invoke(out.f, out.batch[1])
    /\ Len(out.res) = 1

(***************************************************************************)
(* SpecMap: the lambda of Batch::Map(BinaryModel), step by step.  The loop *)
(* index is the static behind CurrentMapIndex(); a frame of stack is one   *)
(* activation of the lambda.  A frame's f is a binary model whose body     *)
(* computes its value and, when nest > 0, first runs a binary Batch::Map   *)
(* of its own.                                                             *)
(*   pc: "test"    about to evaluate i < x.size()                          *)
(*       "call"    inside f(x[i], y[i])                                    *)
(*       "inner"   inside f, waiting for the Map its body runs             *)
(*       "ret"     inside f, the Map its body ran has returned             *)
(*       "aborted" assert() failed; "crashed" the process faulted          *)
(* x, y, res0 are the arguments as passed; slot is the index f was invoked *)
(* on and calls the indices it was invoked on so far (history).            *)
(***************************************************************************)
\* A default-constructed Variable, as vector::resize appends.
DefaultVariable == -1

\* What the binary model computes.
BinF(a, b) == (a + 2 * b) % NumVals

\* vector::resize
Resize(v, n) == [k \in 1..n |-> IF k <= Len(v) THEN v[k] ELSE DefaultVariable]

PriorRes == {<<>>, <<0>>, <<0, 0, 0>>}

Top == stack[Len(stack)]

SetTop(frame) == [stack EXCEPT ![Len(stack)] = frame]

\* Entering the lambda: assert, res.resize, i = 0.
EnterMap(x, y, res, nest) ==
    IF Len(y) # Len(x) /\ ~ndebug
    THEN [frame |-> [x |-> x, y |-> y, res0 |-> res, res |-> res, nest |-> nest,
                     pc |-> "aborted", slot |-> 0, arg |-> <<>>, calls |-> <<>>],
          index |-> CurrentMapIndex]
    ELSE [frame |-> [x |-> x, y |-> y, res0 |-> res, res |-> Resize(res, Len(x)),
                     nest |-> nest, pc |-> "test", slot |-> 0, arg |-> <<>>,
                     calls |-> <<>>],
          index |-> 0]

\* User code calls Batch::Map(f)(res, x, y).
MapCall(x, y, res, nest) ==
    LET e == EnterMap(x, y, res, nest)
    IN  /\ stack = <<>>
        /\ stack' = <<e.frame>>
        /\ CurrentMapIndex' = e.index
        /\ out' = NoResult
        /\ UNCHANGED <<heap, debugName, models, ndebug, lhsFirst>>

\* i < x.size() holds: f(x[i], y[i]) is invoked.  Reading y[i] past the end
\* of y is undefined: a fault, or any value.
LoopEnter ==
    /\ stack # <<>>
    /\ Top.pc = "test"
    /\ CurrentMapIndex < Len(Top.x)
    /\ Len(Top.calls) <= MaxLen
    /\ LET i == CurrentMapIndex
           invoked(b) == [Top EXCEPT !.pc = "call", !.slot = i,
                                     !.arg = <<Top.x[i + 1], b>>,
                                     !.calls = Append(Top.calls, i)]
       IN  IF i < Len(Top.y)
           THEN stack' = SetTop(invoked(Top.y[i + 1]))
           ELSE \/ stack' = SetTop([Top EXCEPT !.pc = "crashed"])
                \/ \E b \in Vals : stack' = SetTop(invoked(b))
    /\ UNCHANGED <<heap, out, debugName, models, CurrentMapIndex, ndebug, lhsFirst>>

\* The body of f runs a binary Batch::Map of its own, over n elements.
FBodyRunsMap(n) ==
    /\ stack # <<>>
    /\ Top.pc = "call"
    /\ Top.nest > 0
    /\ LET e == EnterMap([k \in 1..n |-> Top.arg[1]], [k \in 1..n |-> Top.arg[2]],
                         <<>>, Top.nest - 1)
       IN  /\ stack' = Append(SetTop([Top EXCEPT !.pc = "inner"]), e.frame)
           /\ CurrentMapIndex' = e.index
    /\ UNCHANGED <<heap, out, debugName, models, ndebug, lhsFirst>>

\* f returns: res[i] = <its value>; i++.  The build fixes whether res[i] was
\* evaluated before the call (slot) or is evaluated now; a write past the end
\* of res is undefined: a fault, or a write that res does not show.
FReturn ==
    /\ stack # <<>>
    /\ \/ Top.pc = "call" /\ Top.nest = 0
       \/ Top.pc = "ret"
    /\ LET at == IF lhsFirst THEN Top.slot ELSE CurrentMapIndex
           v  == BinF(Top.arg[1], Top.arg[2])
       IN  IF at < Len(Top.res)
           THEN /\ stack' = SetTop([Top EXCEPT !.pc = "test", !.res[at + 1] = v])
                /\ CurrentMapIndex' = (CurrentMapIndex + 1) % (SIZE_MAX + 1)
           ELSE \/ /\ stack' = SetTop([Top EXCEPT !.pc = "crashed"])
                   /\ UNCHANGED CurrentMapIndex
                \/ /\ stack' = SetTop([Top EXCEPT !.pc = "test"])
                   /\ CurrentMapIndex' = (CurrentMapIndex + 1) % (SIZE_MAX + 1)
    /\ UNCHANGED <<heap, out, debugName, models, ndebug, lhsFirst>>

\* i < x.size() fails: i = SIZE_MAX, and the lambda returns to its caller.
LoopExit ==
    /\ stack # <<>>
    /\ Top.pc = "test"
    /\ CurrentMapIndex >= Len(Top.x)
    /\ CurrentMapIndex' = SIZE_MAX
    /\ out' = [op |-> "Batch::Map(BinaryModel)", x |-> Top.x, y |-> Top.y,
               res0 |-> Top.res0, res |-> Top.res, calls |-> Top.calls,
               depth |-> Len(stack)]
    /\ stack' = IF Len(stack) = 1 THEN <<>>
                ELSE [SubSeq(stack, 1, Len(stack) - 1)
                         EXCEPT ![Len(stack) - 1].pc = "ret"]
    /\ UNCHANGED <<heap, debugName, models, ndebug, lhsFirst>>

InitMap ==
    /\ heap = <<>>
    /\ out = NoResult
    /\ debugName = [p \in Params |-> ""]
    /\ models = <<>>
    /\ CurrentMapIndex = SIZE_MAX
    /\ stack = <<>>
    /\ ndebug \in BOOLEAN
    /\ lhsFirst \in BOOLEAN

NextMap ==
    \/ \E x \in Seqs, y \in Seqs, res \in PriorRes, nest \in 0..MaxNest : MapCall(x, y, res, nest)
    \/ LoopEnter
    \/ \E n \in 0..MaxLen : FBodyRunsMap(n)
    \/ FReturn
    \/ LoopExit

SpecMap == InitMap /\ [][NextMap]_vars

Alive == \A k \in DOMAIN stack : stack[k].pc \notin {"aborted", "crashed"}

\* C6: a binary Map called with sequences of different lengths fails before
\* f is invoked on any element and before res is modified.
C6_MismatchFailsFirst ==
    /\ \A k \in DOMAIN stack :
          Len(stack[k].x) # Len(stack[k].y) =>
              /\ stack[k].pc = "aborted"
              /\ stack[k].calls = <<>>
              /\ stack[k].res = stack[k].res0
    /\ out.op = "Batch::Map(BinaryModel)" => Len(out.x) = Len(out.y)

\* C9: CurrentMapIndex() is SIZE_MAX whenever no binary Map loop is executing,
\* and during the invocation of f on element i it is i.
C9_IndexTracksLoop ==
    Alive =>
        /\ stack = <<>> => CurrentMapIndex = SIZE_MAX
        /\ \A k \in DOMAIN stack :
              stack[k].pc \in {"call", "inner", "ret"} => CurrentMapIndex = stack[k].slot

\* C10: a binary Map over equal-length sequences of length N invokes f once
\* for each index 0..N-1 in increasing order and then returns, also when the
\* body of f runs a binary Map itself.
C10_EachIndexOnce ==
    /\ \A k \in DOMAIN stack :
          Len(stack[k].x) = Len(stack[k].y) =>
              /\ stack[k].pc # "crashed"
              /\ Len(stack[k].calls) <= Len(stack[k].x)
              /\ stack[k].calls = Indices(Len(stack[k].calls))
    /\ (out.op = "Batch::Map(BinaryModel)" /\ Len(out.x) = Len(out.y))
          => out.calls = Indices(Len(out.x))

====
